---- MODULE Spec2Model ----
(***************************************************************************)
(* Vanity address search engine: generate_vanity_eoa.py (mnemonic / EOA    *)
(* mode) and generate_vanity_contract_deployer.py (CREATE contract mode).  *)
(*                                                                         *)
(* A string is a sequence of one-character strings: "0xAb" is              *)
(* <<"0","x","A","b">>.  The cryptographic primitives (BIP39/BIP44 key     *)
(* derivation, Keccak-256) are external libraries; they are stood in for   *)
(* by fixed deterministic functions (Mix, KeccakNibble) so that derivation *)
(* is repeatable and the EIP-55 casing depends on the whole address.       *)
(***************************************************************************)
EXTENDS Integers, Sequences, FiniteSets, TLC

(***************************************************************************)
(* Bounds of the model.                                                    *)
(***************************************************************************)
\* hex digits in a modelled address (a real address has 40)
AddrLen == 2
\* how many characters of Alphabet the pattern/address inputs are drawn from
NumChars == 3
\* longest prefix and longest suffix of an input pattern
MaxPatLen == 1
\* longest pattern list handed to calculate_probability
MaxPatterns == 2
\* distinct values the random key material takes
NumKeys == 2
\* batches one worker begins
MaxBatches == 1
\* exceptions raised inside the EOA worker's try block
MaxErrors == 1
\* the clock stops here
MaxTime == 6

(***************************************************************************)
(* Characters and strings.                                                 *)
(***************************************************************************)
HexDigits == <<"0","1","2","3","4","5","6","7","8","9","a","b","c","d","e","f">>

\* the characters inputs are drawn from, most interesting first
Alphabet == <<"0","a","A","b","B","1","f","F","c","C","9","d","D","e","E",
              "2","3","4","5","6","7","8">>

InChars == {Alphabet[i] : i \in 1..(IF NumChars < Len(Alphabet) THEN NumChars ELSE Len(Alphabet))}

\* str.lower() on one character
LowerChar(c) ==
    CASE c = "A" -> "a" [] c = "B" -> "b" [] c = "C" -> "c"
      [] c = "D" -> "d" [] c = "E" -> "e" [] c = "F" -> "f"
      [] c = "X" -> "x" [] OTHER -> c

\* str.upper() on one character
UpperChar(c) ==
    CASE c = "a" -> "A" [] c = "b" -> "B" [] c = "c" -> "C"
      [] c = "d" -> "D" [] c = "e" -> "E" [] c = "f" -> "F"
      [] c = "x" -> "X" [] OTHER -> c

LowerStr(s) == [i \in 1..Len(s) |-> LowerChar(s[i])]
UpperStr(s) == [i \in 1..Len(s) |-> UpperChar(s[i])]

\* str.startswith / str.endswith
StartsWith(s, p) == Len(p) <= Len(s) /\ SubSeq(s, 1, Len(p)) = p
EndsWith(s, p) == Len(p) <= Len(s) /\ SubSeq(s, Len(s) - Len(p) + 1, Len(s)) = p

\* all strings over chars of length at most n
StringsUpTo(chars, n) == UNION {[1..k -> chars] : k \in 0..n}

HexVal(c) == CHOOSE v \in 0..15 : HexDigits[v + 1] = LowerChar(c)

RECURSIVE SumVals(_)
SumVals(s) == IF s = <<>> THEN 0 ELSE HexVal(Head(s)) + SumVals(Tail(s))

(***************************************************************************)
(* EIP-55 (eth_utils.to_checksum_address).  The i-th hex digit is a        *)
(* capital when the i-th nibble of the hash of the lower-cased digits is   *)
(* above 7.  The result carries the "0x" marker.                           *)
(***************************************************************************)
KeccakNibble(low, i) == (HexVal(low[i]) * 3 + SumVals(low) + i) % 16

ChecksumDigits(digits) ==
    LET low == LowerStr(digits)
    IN [i \in 1..Len(low) |->
            IF KeccakNibble(low, i) > 7 THEN UpperChar(low[i]) ELSE low[i]]

ToChecksumAddress(address) ==
    LET digits == IF StartsWith(LowerStr(address), <<"0","x">>)
                  THEN SubSeq(address, 3, Len(address)) ELSE address
    IN <<"0","x">> \o ChecksumDigits(digits)

(***************************************************************************)
(* check_vanity_pattern, one per entry point.                              *)
(***************************************************************************)
\* check_vanity_pattern that folds the case of the address but not of the pattern
CheckVanityPatternEoa_PatternNotFolded(address, prefix, suffix, match_case) ==
    LET a == IF ~match_case THEN LowerStr(address) ELSE address
    IN StartsWith(a, prefix) /\ EndsWith(a, suffix)

\* generate_vanity_eoa.py
CheckVanityPatternEoa(address, prefix, suffix, match_case) ==
    LET a == IF ~match_case THEN LowerStr(address) ELSE address
        p == IF ~match_case THEN LowerStr(prefix) ELSE prefix
        s == IF ~match_case THEN LowerStr(suffix) ELSE suffix
    IN StartsWith(a, p) /\ EndsWith(a, s)

\* generate_vanity_contract_deployer.py
CheckVanityPatternContract(address, prefix, suffix, match_case) ==
    LET a == IF match_case THEN ToChecksumAddress(address) ELSE LowerStr(address)
        p == IF match_case THEN prefix ELSE LowerStr(prefix)
        s == IF match_case THEN suffix ELSE LowerStr(suffix)
    IN StartsWith(a, p) /\ EndsWith(a, s)

(***************************************************************************)
(* Probabilities are exact fractions <<numerator, denominator>> in lowest  *)
(* terms (the code computes them in floating point; rounding is not        *)
(* modelled).                                                              *)
(***************************************************************************)
RECURSIVE Gcd(_, _)
Gcd(a, b) == IF b = 0 THEN a ELSE Gcd(b, a % b)

RECURSIVE Pow(_, _)
Pow(b, k) == IF k = 0 THEN 1 ELSE b * Pow(b, k - 1)

RatNorm(n, d) == LET g == Gcd(n, d) IN <<n \div g, d \div g>>

RatAdd(x, y) ==
    LET g == Gcd(x[2], y[2])
    IN RatNorm(x[1] * (y[2] \div g) + y[1] * (x[2] \div g), x[2] * (y[2] \div g))

RatMul(x, y) == RatNorm(x[1] * y[1], x[2] * y[2])

RatZero == <<0, 1>>

\* sum(1 for c in s if pred(c))
RECURSIVE CountChars(_, _)
CountChars(s, class) ==
    IF s = <<>> THEN 0
    ELSE (IF Head(s) \in class THEN 1 ELSE 0) + CountChars(Tail(s), class)

LowerSet == {"a","b","c","d","e","f","x"}
UpperSet == {"A","B","C","D","E","F","X"}
DigitSet == {"0","1","2","3","4","5","6","7","8","9"}

\* denominators of p_lower, p_upper, p_num and of the case-insensitive 1 / 16
PLowerDen == 36
PUpperDen == 36
PNumDen == 16
PAnyDen == 16

\* the loop body with capitals left out of the product
PatternProb_CapitalsIgnored(prefix, suffix, match_case) ==
    IF match_case
    THEN LET lowercase_chars == CountChars(prefix \o suffix, LowerSet)
             numeric_chars == CountChars(prefix \o suffix, DigitSet)
         IN RatMul(<<1, Pow(PLowerDen, lowercase_chars)>>,
                   <<1, Pow(PNumDen, numeric_chars)>>)
    ELSE LET total_chars == Len(prefix) + Len(suffix)
         IN <<1, Pow(PAnyDen, total_chars)>>

\* generate_vanity_eoa.py: the body of the loop of calculate_probability
PatternProb(prefix, suffix, match_case) ==
    IF match_case
    THEN LET lowercase_chars == CountChars(prefix \o suffix, LowerSet)
             uppercase_chars == CountChars(prefix \o suffix, UpperSet)
             numeric_chars == CountChars(prefix \o suffix, DigitSet)
         IN RatMul(RatMul(<<1, Pow(PLowerDen, lowercase_chars)>>,
                          <<1, Pow(PUpperDen, uppercase_chars)>>),
                   <<1, Pow(PNumDen, numeric_chars)>>)
    ELSE LET total_chars == Len(prefix) + Len(suffix)
         IN <<1, Pow(PAnyDen, total_chars)>>

\* generate_vanity_eoa.py: calculate_probability(patterns); a pattern is
\* <<prefix, suffix, match_case>>
RECURSIVE CalculateProbabilityEoa(_)
CalculateProbabilityEoa(pats) ==
    IF pats = <<>> THEN RatZero
    ELSE LET n == Len(pats)
             last == pats[n]
         IN RatAdd(CalculateProbabilityEoa(SubSeq(pats, 1, n - 1)),
                   PatternProb(last[1], last[2], last[3]))

\* generate_vanity_contract_deployer.py: calculate_probability(prefix, suffix, match_case)
CalculateProbabilityContract(prefix, suffix, match_case) ==
    IF match_case
    THEN LET lowercase_chars == CountChars(prefix \o suffix, LowerSet)
             uppercase_chars == CountChars(prefix \o suffix, UpperSet)
             numeric_chars == CountChars(prefix \o suffix, DigitSet)
         IN RatMul(RatMul(<<1, Pow(PLowerDen, lowercase_chars)>>,
                          <<1, Pow(PUpperDen, uppercase_chars)>>),
                   <<1, Pow(PNumDen, numeric_chars)>>)
    ELSE LET total_chars == Len(prefix) + Len(suffix)
         IN <<1, Pow(PAnyDen, total_chars)>>

(***************************************************************************)
(* estimate_eta_50_percent: only whether it returns or raises is modelled. *)
(* math.log(1 - probability) raises ValueError when probability >= 1 and   *)
(* is 0.0 when probability is 0; both divisions raise ZeroDivisionError on *)
(* a zero divisor.                                                         *)
(***************************************************************************)
EstimateEtaOutcome(probability, guesses_per_second_is_zero) ==
    IF probability[1] >= probability[2] THEN "ValueError"
    ELSE IF probability[1] = 0 THEN "ZeroDivisionError"
    ELSE IF guesses_per_second_is_zero THEN "ZeroDivisionError"
    ELSE "ok"

(***************************************************************************)
(* Key derivation stand-ins.  Key material is a number below NumKeys.      *)
(***************************************************************************)
Keys == 0..(NumKeys - 1)

Mix(key, n, i) == (n * 10 + (i - 1) * (key * 3 + n + 1)) % 16

\* the lower-case hex digits of the account derived from key material at index n
DeriveDigits(key, n) == [i \in 1..AddrLen |-> HexDigits[Mix(key, n, i) + 1]]

\* generate_eth_addresses_from_mnemonic: addresses_to_check accounts, each with the
\* checksummed "0x" address eth_account gives
GenerateEthAddressesFromMnemonic(mnemonic, addresses_to_check) ==
    [k \in 1..addresses_to_check |->
        [pk |-> <<mnemonic, k - 1>>,
         address |-> ToChecksumAddress(DeriveDigits(mnemonic, k - 1)),
         index |-> k - 1]]

\* get_eoa_address(private_key)
GetEoaAddress(private_key) == ToChecksumAddress(DeriveDigits(private_key, 0))

\* calculate_contract_address(eoa_address, nonce): lower-case digits, no "0x"
CalculateContractAddress(eoa_address, nonce) ==
    LET seed == SumVals(SubSeq(eoa_address, 3, Len(eoa_address)))
    IN [i \in 1..AddrLen |-> HexDigits[Mix(seed, nonce, i) + 1]]

\* mp.Value('i', 0) is a C int: an assignment keeps the low 32 bits, two's complement
MaxInt32 == 2147483647

AddInt32(a, b) ==
    IF b > 0 /\ a > MaxInt32 - b THEN (a - MaxInt32 - 1) + (b - MaxInt32 - 1)
    ELSE IF b < 0 /\ a < (-MaxInt32 - 1) - b THEN (a + MaxInt32 + 1) + (b + MaxInt32 + 1)
    ELSE a + b

(***************************************************************************)
(* The search engine.  Init is the state main() has built when it enters   *)
(* its try block: the workers and log_progress are started, the queues     *)
(* are empty.  cfg holds the arguments of main().                          *)
(***************************************************************************)
VARIABLES
    cfg,             \* the arguments of main: [mode, patterns, max_batch, num_processes],
                     \* and horizon, the time over which the run is observed
    now,             \* the latest value time.time() has returned
    w_pc,            \* worker -> "generate" | "check" | "report" | "dead"
    w_key,           \* worker -> the key material of its batch
    w_idx,           \* worker -> how many addresses of the batch are checked
    local_guesses,   \* worker -> local_guesses
    sigterm,         \* worker -> terminate() has signalled it
    result_queue,
    stats_queue,
    total_guesses,   \* total_guesses.value
    should_exit,     \* should_exit.is_set()
    main_pc,         \* "get" | "forward" | "set_exit" | "terminate" | "join" | "drain" | "returned"
    main_result,     \* the result main has taken from result_queue
    main_start_time, \* start_time of main
    main_i,          \* how many workers main has called terminate() on
    log_pc,          \* "start" | "loop" | "drain" | "report" | "exited" | "crashed"
    log_start_time,  \* start_time as passed to log_progress
    last_log_time,
    current_time,
    probability,
    log_error,       \* the exception that ended log_progress, or "none"
    performed,       \* history: worker -> executions of local_guesses += 1
    stats_sent,      \* history: worker -> sum of what it put on stats_queue
    results_put,     \* history: results put on result_queue
    sink,            \* history: how many results were printed (and written to results.txt)
    reports,         \* history: current_time of every progress line printed
    batches,         \* history: batches each worker has begun and not abandoned
    errors,          \* history: exceptions caught by the EOA worker
    call             \* the pure-function harness: one call and its return value

engine_vars == <<cfg, now, w_pc, w_key, w_idx, local_guesses, sigterm, result_queue,
                 stats_queue, total_guesses, should_exit, main_pc, main_result,
                 main_start_time, main_i, log_pc, log_start_time, last_log_time,
                 current_time, probability, log_error, performed, stats_sent,
                 results_put, sink, reports, batches, errors>>

Workers == 1..cfg.num_processes

\* log_progress reports when more than this many seconds have passed
ReportInterval == 5

NoResult == [none |-> TRUE]

\* the pattern arguments of the runs: EOA mode takes a list, contract mode one pattern
PatternArgs ==
    { [mode |-> "eoa", patterns |-> <<>>],
      [mode |-> "eoa", patterns |-> << <<<<"a">>, <<>>, FALSE>>, <<<<>>, <<"f">>, FALSE>> >>],
      [mode |-> "eoa", patterns |-> << <<<<>>, <<>>, FALSE>> >>],
      [mode |-> "contract", patterns |-> << <<<<"0">>, <<>>, TRUE>> >>],
      [mode |-> "contract", patterns |-> << <<<<"a">>, <<>>, FALSE>> >>] }

\* two workers or a batch of two watched while the clock stands still, with the
\* exceptions the libraries may raise, or one worker watched for MaxTime
RunShapes ==
    { [num_processes |-> 2, max_batch |-> 1, horizon |-> 0, faults |-> TRUE],
      [num_processes |-> 1, max_batch |-> 2, horizon |-> 0, faults |-> TRUE],
      [num_processes |-> 1, max_batch |-> 1, horizon |-> MaxTime, faults |-> FALSE] }

\* the EOA pattern that every address matches is run with one worker only
RunsWatched ==
    { ar \in PatternArgs \X RunShapes :
        \/ ar[2].num_processes = 1
        \/ ar[1].patterns # << <<<<>>, <<>>, FALSE>> >> }

Configs ==
    { [mode |-> ar[1].mode, patterns |-> ar[1].patterns, max_batch |-> ar[2].max_batch,
       num_processes |-> ar[2].num_processes, horizon |-> ar[2].horizon,
       faults |-> ar[2].faults] :
        ar \in RunsWatched }

\* every worker number of any run
AllWorkers == UNION {1..r.num_processes : r \in RunShapes}

NoConfig == [mode |-> "none", patterns |-> <<>>, max_batch |-> 0, num_processes |-> 0,
             horizon |-> 0, faults |-> FALSE]

EngineStart(c) ==
    /\ cfg = c
    /\ now = 0
    /\ w_pc = [w \in Workers |-> "generate"]
    /\ w_key = [w \in Workers |-> 0]
    /\ w_idx = [w \in Workers |-> 0]
    /\ local_guesses = [w \in Workers |-> 0]
    /\ sigterm = [w \in Workers |-> FALSE]
    /\ result_queue = <<>>
    /\ stats_queue = <<>>
    /\ total_guesses = 0
    /\ should_exit = FALSE
    /\ main_pc = "get"
    /\ main_result = NoResult
    /\ main_start_time = 0
    /\ main_i = 0
    /\ log_pc = "start"
    /\ log_start_time = 0
    /\ last_log_time = 0
    /\ current_time = 0
    /\ probability = RatZero
    /\ log_error = "none"
    /\ performed = [w \in Workers |-> 0]
    /\ stats_sent = [w \in Workers |-> 0]
    /\ results_put = 0
    /\ sink = 0
    /\ reports = <<>>
    /\ batches = [w \in 1..c.num_processes |-> 0]
    /\ errors = 0

(***************************************************************************)
(* Workers.                                                                *)
(***************************************************************************)
\* the loop without its break: the last pattern that matches wins
RECURSIVE FirstMatchFrom_NoBreak(_, _, _)
FirstMatchFrom_NoBreak(pats, digits, k) ==
    IF k > Len(pats) THEN 0
    ELSE LET later == FirstMatchFrom_NoBreak(pats, digits, k + 1)
         IN IF later # 0 THEN later
            ELSE IF CheckVanityPatternEoa(digits, pats[k][1], pats[k][2], pats[k][3]) THEN k
            ELSE 0

\* the for loop over patterns with its break: the position of the first pattern
\* that matches, 0 when none does
RECURSIVE FirstMatchFrom(_, _, _)
FirstMatchFrom(pats, digits, k) ==
    IF k > Len(pats) THEN 0
    ELSE IF CheckVanityPatternEoa(digits, pats[k][1], pats[k][2], pats[k][3]) THEN k
    ELSE FirstMatchFrom(pats, digits, k + 1)

FirstMatch(pats, digits) == FirstMatchFrom(pats, digits, 1)

\* address.address[2:]
StripMarker(address) == SubSeq(address, 3, Len(address))

\* EOA worker: a fresh mnemonic and its max_derivations addresses
EoaGenerate(w) ==
    /\ cfg.mode = "eoa" /\ w_pc[w] = "generate" /\ batches[w] < MaxBatches
    /\ \E mnemonic \in Keys : w_key' = [w_key EXCEPT ![w] = mnemonic]
    /\ w_idx' = [w_idx EXCEPT ![w] = 0]
    /\ w_pc' = [w_pc EXCEPT ![w] = "check"]
    /\ batches' = [batches EXCEPT ![w] = @ + 1]
    /\ UNCHANGED <<cfg, now, local_guesses, sigterm, result_queue, stats_queue,
                   total_guesses, should_exit, main_pc, main_result, main_start_time,
                   main_i, log_pc, log_start_time, last_log_time, current_time,
                   probability, log_error, performed, stats_sent, results_put, sink,
                   reports, errors, call>>

\* EOA worker: one iteration of the loop over generated_addresses
EoaCheck(w) ==
    /\ cfg.mode = "eoa" /\ w_pc[w] = "check"
    /\ LET generated_addresses == GenerateEthAddressesFromMnemonic(w_key[w], cfg.max_batch)
           address == generated_addresses[w_idx[w] + 1]
           m == FirstMatch(cfg.patterns, StripMarker(address.address))
       IN /\ local_guesses' = [local_guesses EXCEPT ![w] = @ + 1]
          /\ performed' = [performed EXCEPT ![w] = @ + 1]
          /\ IF m # 0
             THEN /\ result_queue' = Append(result_queue,
                        [index |-> address.index, address |-> address.address,
                         mnemonic |-> w_key[w], prefix |-> cfg.patterns[m][1],
                         suffix |-> cfg.patterns[m][2]])
                  /\ results_put' = results_put + 1
             ELSE UNCHANGED <<result_queue, results_put>>
    /\ w_idx' = [w_idx EXCEPT ![w] = @ + 1]
    /\ w_pc' = [w_pc EXCEPT ![w] = IF w_idx[w] + 1 = cfg.max_batch THEN "report" ELSE "check"]
    /\ UNCHANGED <<cfg, now, w_key, sigterm, stats_queue, total_guesses, should_exit,
                   main_pc, main_result, main_start_time, main_i, log_pc,
                   log_start_time, last_log_time, current_time, probability, log_error,
                   stats_sent, sink, reports, batches, errors, call>>

\* a worker that adds its count to the shared counter itself
WorkerReport_AddsToTotal(w) ==
    /\ w_pc[w] = "report"
    /\ total_guesses' = AddInt32(total_guesses, local_guesses[w])
    /\ stats_sent' = [stats_sent EXCEPT ![w] = @ + local_guesses[w]]
    /\ local_guesses' = [local_guesses EXCEPT ![w] = 0]
    /\ w_pc' = [w_pc EXCEPT ![w] = "generate"]
    /\ w_key' = [w_key EXCEPT ![w] = 0]
    /\ w_idx' = [w_idx EXCEPT ![w] = 0]
    /\ UNCHANGED <<cfg, now, sigterm, result_queue, stats_queue,
                   should_exit, main_pc, main_result, main_start_time, main_i, log_pc,
                   log_start_time, last_log_time, current_time, probability, log_error,
                   performed, results_put, sink, reports, batches, errors, call>>

\* both workers: stats_queue.put(local_guesses); local_guesses = 0.  The loop
\* variables of the finished batch are never read again; they are cleared so that
\* equal program states are equal model states.
WorkerReport(w) ==
    /\ w_pc[w] = "report"
    /\ stats_queue' = Append(stats_queue, local_guesses[w])
    /\ stats_sent' = [stats_sent EXCEPT ![w] = @ + local_guesses[w]]
    /\ local_guesses' = [local_guesses EXCEPT ![w] = 0]
    /\ w_pc' = [w_pc EXCEPT ![w] = "generate"]
    /\ w_key' = [w_key EXCEPT ![w] = 0]
    /\ w_idx' = [w_idx EXCEPT ![w] = 0]
    /\ UNCHANGED <<cfg, now, sigterm, result_queue, total_guesses,
                   should_exit, main_pc, main_result, main_start_time, main_i, log_pc,
                   log_start_time, last_log_time, current_time, probability, log_error,
                   performed, results_put, sink, reports, batches, errors, call>>

\* a handler that starts the next batch with a fresh count
EoaError_DropsCount(w) ==
    /\ cfg.mode = "eoa" /\ cfg.faults /\ errors < MaxErrors
    /\ \/ /\ w_pc[w] = "generate"
          /\ UNCHANGED <<performed, batches>>
       \/ /\ w_pc[w] = "check"
          /\ performed' = [performed EXCEPT ![w] = @ + 1]
          /\ batches' = [batches EXCEPT ![w] = @ - 1]
    /\ local_guesses' = [local_guesses EXCEPT ![w] = 0]
    /\ w_pc' = [w_pc EXCEPT ![w] = "generate"]
    /\ w_key' = [w_key EXCEPT ![w] = 0]
    /\ w_idx' = [w_idx EXCEPT ![w] = 0]
    /\ errors' = errors + 1
    /\ UNCHANGED <<cfg, now, sigterm, result_queue, stats_queue,
                   total_guesses, should_exit, main_pc, main_result, main_start_time,
                   main_i, log_pc, log_start_time, last_log_time, current_time,
                   probability, log_error, stats_sent, results_put, sink, reports,
                   call>>

\* EOA worker: an exception in the try block, while deriving the batch or inside an
\* iteration after its local_guesses += 1; the handler prints and the loop starts over
EoaError(w) ==
    /\ cfg.mode = "eoa" /\ cfg.faults /\ errors < MaxErrors
    /\ \/ /\ w_pc[w] = "generate"
          /\ UNCHANGED <<local_guesses, performed, batches>>
       \/ /\ w_pc[w] = "check"
          /\ local_guesses' = [local_guesses EXCEPT ![w] = @ + 1]
          /\ performed' = [performed EXCEPT ![w] = @ + 1]
          /\ batches' = [batches EXCEPT ![w] = @ - 1]
    /\ w_pc' = [w_pc EXCEPT ![w] = "generate"]
    /\ w_key' = [w_key EXCEPT ![w] = 0]
    /\ w_idx' = [w_idx EXCEPT ![w] = 0]
    /\ errors' = errors + 1
    /\ UNCHANGED <<cfg, now, sigterm, result_queue, stats_queue,
                   total_guesses, should_exit, main_pc, main_result, main_start_time,
                   main_i, log_pc, log_start_time, last_log_time, current_time,
                   probability, log_error, stats_sent, results_put, sink, reports,
                   call>>

\* contract worker: a fresh private key and its EOA address
ContractGenerate(w) ==
    /\ cfg.mode = "contract" /\ w_pc[w] = "generate" /\ batches[w] < MaxBatches
    /\ \E private_key \in Keys : w_key' = [w_key EXCEPT ![w] = private_key]
    /\ w_idx' = [w_idx EXCEPT ![w] = 0]
    /\ w_pc' = [w_pc EXCEPT ![w] = "check"]
    /\ batches' = [batches EXCEPT ![w] = @ + 1]
    /\ UNCHANGED <<cfg, now, local_guesses, sigterm, result_queue, stats_queue,
                   total_guesses, should_exit, main_pc, main_result, main_start_time,
                   main_i, log_pc, log_start_time, last_log_time, current_time,
                   probability, log_error, performed, stats_sent, results_put, sink,
                   reports, errors, call>>

\* contract worker: one iteration of for nonce in range(max_nonce)
ContractCheck(w) ==
    /\ cfg.mode = "contract" /\ w_pc[w] = "check"
    /\ LET private_key == w_key[w]
           eoa_address == GetEoaAddress(private_key)
           nonce == w_idx[w]
           contract_address == CalculateContractAddress(eoa_address, nonce)
           pat == cfg.patterns[1]
       IN /\ local_guesses' = [local_guesses EXCEPT ![w] = @ + 1]
          /\ performed' = [performed EXCEPT ![w] = @ + 1]
          /\ IF CheckVanityPatternContract(contract_address, pat[1], pat[2], pat[3])
             THEN /\ result_queue' = Append(result_queue,
                        [private_key |-> private_key, eoa_address |-> eoa_address,
                         nonce |-> nonce, contract_address |-> contract_address])
                  /\ results_put' = results_put + 1
             ELSE UNCHANGED <<result_queue, results_put>>
    /\ w_idx' = [w_idx EXCEPT ![w] = @ + 1]
    /\ w_pc' = [w_pc EXCEPT ![w] = IF w_idx[w] + 1 = cfg.max_batch THEN "report" ELSE "check"]
    /\ UNCHANGED <<cfg, now, w_key, sigterm, stats_queue, total_guesses, should_exit,
                   main_pc, main_result, main_start_time, main_i, log_pc,
                   log_start_time, last_log_time, current_time, probability, log_error,
                   stats_sent, sink, reports, batches, errors, call>>

\* the SIGTERM of Process.terminate() ends the worker wherever it is
WorkerDie(w) ==
    /\ sigterm[w] /\ w_pc[w] # "dead"
    /\ w_pc' = [w_pc EXCEPT ![w] = "dead"]
    /\ w_key' = [w_key EXCEPT ![w] = 0]
    /\ w_idx' = [w_idx EXCEPT ![w] = 0]
    /\ UNCHANGED <<cfg, now, local_guesses, sigterm, result_queue,
                   stats_queue, total_guesses, should_exit, main_pc, main_result,
                   main_start_time, main_i, log_pc, log_start_time, last_log_time,
                   current_time, probability, log_error, performed, stats_sent,
                   results_put, sink, reports, batches, errors, call>>

(***************************************************************************)
(* main: the receive loop and the finally block.                           *)
(***************************************************************************)
\* a call of time.time(): the clock never runs backwards
TimeReads == now..cfg.horizon

\* result = result_queue.get()
MainGet ==
    /\ main_pc = "get" /\ result_queue # <<>>
    /\ main_result' = Head(result_queue)
    /\ result_queue' = Tail(result_queue)
    /\ main_pc' = "forward"
    /\ UNCHANGED <<cfg, now, w_pc, w_key, w_idx, local_guesses, sigterm, stats_queue,
                   total_guesses, should_exit, main_start_time, main_i, log_pc,
                   log_start_time, last_log_time, current_time, probability, log_error,
                   performed, stats_sent, results_put, sink, reports, batches, errors,
                   call>>

\* the prints, write_result_to_file and start_time = time.time()
MainForward ==
    /\ main_pc = "forward"
    /\ sink' = sink + 1
    /\ \E t \in TimeReads : now' = t /\ main_start_time' = t
    /\ main_result' = NoResult
    /\ main_pc' = "get"
    /\ UNCHANGED <<cfg, w_pc, w_key, w_idx, local_guesses, sigterm, result_queue,
                   stats_queue, total_guesses, should_exit, main_i, log_pc,
                   log_start_time, last_log_time, current_time, probability, log_error,
                   performed, stats_sent, results_put, reports, batches,
                   errors, call>>

\* KeyboardInterrupt in the try block: control passes to the finally block
KeyboardInterrupt ==
    /\ main_pc \in {"get", "forward"}
    /\ main_pc' = "set_exit"
    /\ UNCHANGED <<cfg, now, w_pc, w_key, w_idx, local_guesses, sigterm, result_queue,
                   stats_queue, total_guesses, should_exit, main_result,
                   main_start_time, main_i, log_pc, log_start_time, last_log_time,
                   current_time, probability, log_error, performed, stats_sent,
                   results_put, sink, reports, batches, errors, call>>

\* should_exit.set()
MainSetExit ==
    /\ main_pc = "set_exit"
    /\ should_exit' = TRUE
    /\ main_pc' = "terminate"
    /\ UNCHANGED <<cfg, now, w_pc, w_key, w_idx, local_guesses, sigterm, result_queue,
                   stats_queue, total_guesses, main_result, main_start_time, main_i,
                   log_pc, log_start_time, last_log_time, current_time, probability,
                   log_error, performed, stats_sent, results_put, sink, reports,
                   batches, errors, call>>

\* for p in processes: p.terminate() -- one iteration; terminate() does not wait
MainTerminate ==
    /\ main_pc = "terminate"
    /\ sigterm' = [sigterm EXCEPT ![main_i + 1] = TRUE]
    /\ main_i' = main_i + 1
    /\ main_pc' = IF main_i + 1 = cfg.num_processes THEN "join" ELSE "terminate"
    /\ UNCHANGED <<cfg, now, w_pc, w_key, w_idx, local_guesses, result_queue,
                   stats_queue, total_guesses, should_exit, main_result,
                   main_start_time, log_pc, log_start_time, last_log_time,
                   current_time, probability, log_error, performed, stats_sent,
                   results_put, sink, reports, batches, errors, call>>

\* a finally block that goes on to its drain without waiting for log_progress
MainJoin_DoesNotWait ==
    /\ main_pc = "join"
    /\ main_pc' = "drain"
    /\ UNCHANGED <<cfg, now, w_pc, w_key, w_idx, local_guesses, sigterm, result_queue,
                   stats_queue, total_guesses, should_exit, main_result,
                   main_start_time, main_i, log_pc, log_start_time, last_log_time,
                   current_time, probability, log_error, performed, stats_sent,
                   results_put, sink, reports, batches, errors, call>>

\* log_process.join() returns once log_progress has ended
MainJoin ==
    /\ main_pc = "join" /\ log_pc \in {"exited", "crashed"}
    /\ main_pc' = "drain"
    /\ UNCHANGED <<cfg, now, w_pc, w_key, w_idx, local_guesses, sigterm, result_queue,
                   stats_queue, total_guesses, should_exit, main_result,
                   main_start_time, main_i, log_pc, log_start_time, last_log_time,
                   current_time, probability, log_error, performed, stats_sent,
                   results_put, sink, reports, batches, errors, call>>

\* a drain that adds the count at the head of the queue and leaves it there
MainDrain_AddsWithoutTaking ==
    /\ main_pc = "drain"
    /\ IF stats_queue = <<>>
       THEN /\ main_pc' = "returned"
            /\ UNCHANGED <<stats_queue, total_guesses>>
       ELSE /\ total_guesses' = AddInt32(total_guesses, Head(stats_queue))
            /\ UNCHANGED <<stats_queue, main_pc>>
    /\ UNCHANGED <<cfg, now, w_pc, w_key, w_idx, local_guesses, sigterm, result_queue,
                   should_exit, main_result, main_start_time, main_i, log_pc,
                   log_start_time, last_log_time, current_time, probability, log_error,
                   performed, stats_sent, results_put, sink, reports, batches, errors,
                   call>>

\* while not stats_queue.empty(): total_guesses.value += stats_queue.get()
MainDrain ==
    /\ main_pc = "drain"
    /\ IF stats_queue = <<>>
       THEN /\ main_pc' = "returned"
            /\ UNCHANGED <<stats_queue, total_guesses>>
       ELSE /\ total_guesses' = AddInt32(total_guesses, Head(stats_queue))
            /\ stats_queue' = Tail(stats_queue)
            /\ UNCHANGED main_pc
    /\ UNCHANGED <<cfg, now, w_pc, w_key, w_idx, local_guesses, sigterm, result_queue,
                   should_exit, main_result, main_start_time, main_i, log_pc,
                   log_start_time, last_log_time, current_time, probability, log_error,
                   performed, stats_sent, results_put, sink, reports, batches, errors,
                   call>>

(***************************************************************************)
(* log_progress.                                                           *)
(***************************************************************************)
\* last_log_time = time.time(); probability = calculate_probability(...)
LogStart ==
    /\ log_pc = "start"
    /\ \E t \in TimeReads : now' = t /\ last_log_time' = t
    /\ probability' =
          IF cfg.mode = "eoa" THEN CalculateProbabilityEoa(cfg.patterns)
          ELSE CalculateProbabilityContract(cfg.patterns[1][1], cfg.patterns[1][2],
                                            cfg.patterns[1][3])
    /\ log_pc' = "loop"
    /\ UNCHANGED <<cfg, w_pc, w_key, w_idx, local_guesses, sigterm, result_queue,
                   stats_queue, total_guesses, should_exit, main_pc, main_result,
                   main_start_time, main_i, log_start_time, current_time, log_error,
                   performed, stats_sent, results_put, sink, reports, batches, errors,
                   call>>

\* a loop that looks at should_exit only when no report is due
LogLoop_ReportBeforeExitTest ==
    /\ log_pc = "loop"
    /\ \E t \in TimeReads :
          IF t - last_log_time > ReportInterval
          THEN now' = t /\ current_time' = t /\ log_pc' = "drain"
          ELSE IF should_exit
               THEN log_pc' = "exited" /\ UNCHANGED <<now, current_time>>
               ELSE now' = t /\ UNCHANGED <<current_time, log_pc>>
    /\ UNCHANGED <<cfg, w_pc, w_key, w_idx, local_guesses, sigterm, result_queue,
                   stats_queue, total_guesses, should_exit, main_pc, main_result,
                   main_start_time, main_i, log_start_time, last_log_time, probability,
                   log_error, performed, stats_sent, results_put, sink, reports,
                   batches, errors, call>>

\* one pass of while not should_exit.is_set(): read the clock, then either begin a
\* report or sleep (current_time is then never read again and is not recorded)
LogLoop ==
    /\ log_pc = "loop"
    /\ IF should_exit
       THEN /\ log_pc' = "exited"
            /\ UNCHANGED <<now, current_time>>
       ELSE \E t \in TimeReads :
              /\ now' = t
              /\ IF t - last_log_time > ReportInterval
                 THEN current_time' = t /\ log_pc' = "drain"
                 ELSE UNCHANGED <<current_time, log_pc>>
    /\ UNCHANGED <<cfg, w_pc, w_key, w_idx, local_guesses, sigterm, result_queue,
                   stats_queue, total_guesses, should_exit, main_pc, main_result,
                   main_start_time, main_i, log_start_time, last_log_time, probability,
                   log_error, performed, stats_sent, results_put, sink, reports,
                   batches, errors, call>>

\* while not stats_queue.empty(): total_guesses.value += stats_queue.get()
LogDrain ==
    /\ log_pc = "drain"
    /\ IF stats_queue = <<>>
       THEN /\ log_pc' = "report"
            /\ UNCHANGED <<stats_queue, total_guesses>>
       ELSE /\ total_guesses' = AddInt32(total_guesses, Head(stats_queue))
            /\ stats_queue' = Tail(stats_queue)
            /\ UNCHANGED log_pc
    /\ UNCHANGED <<cfg, now, w_pc, w_key, w_idx, local_guesses, sigterm, result_queue,
                   should_exit, main_pc, main_result, main_start_time, main_i,
                   log_start_time, last_log_time, current_time, probability, log_error,
                   performed, stats_sent, results_put, sink, reports, batches, errors,
                   call>>

\* elapsed_time = current_time - start_time, start_time being the argument
\* log_progress was started with
elapsed_time == current_time - log_start_time

\* what the two divisions and estimate_eta_50_percent do at a tick
TickOutcome ==
    IF elapsed_time = 0 THEN "ZeroDivisionError"
    ELSE EstimateEtaOutcome(probability, total_guesses = 0)

\* guesses_per_second, eta_50_percent, the progress line, last_log_time = current_time;
\* an exception ends the process
LogReport ==
    /\ log_pc = "report"
    /\ IF TickOutcome = "ok"
       THEN /\ reports' = Append(reports, current_time)
            /\ last_log_time' = current_time
            /\ log_pc' = "loop"
            /\ UNCHANGED log_error
       ELSE /\ log_error' = TickOutcome
            /\ log_pc' = "crashed"
            /\ UNCHANGED <<reports, last_log_time>>
    /\ UNCHANGED <<cfg, now, w_pc, w_key, w_idx, local_guesses, sigterm, result_queue,
                   stats_queue, total_guesses, should_exit, main_pc, main_result,
                   main_start_time, main_i, log_start_time, current_time, probability,
                   performed, stats_sent, results_put, sink, batches, errors, call>>

(***************************************************************************)
(* The pure functions are exercised by a harness: one call, its arguments  *)
(* drawn from bounded sets, and its return value.                          *)
(***************************************************************************)
vars == <<call, engine_vars>>

NoCall == [fn |-> "none", address |-> <<>>, prefix |-> <<>>, suffix |-> <<>>,
           match_case |-> FALSE, patterns |-> <<>>, done |-> FALSE, ret |-> FALSE]

\* one character of each class calculate_probability tells apart
ClassChars == {"0", "a", "A"}

PatStrings == StringsUpTo(InChars, MaxPatLen)

\* patterns of a list: prefix and suffix together at most MaxPatLen characters
ListPatterns ==
    {<<pre, suf, mc>> : pre \in StringsUpTo(ClassChars, MaxPatLen),
                        suf \in StringsUpTo(ClassChars, MaxPatLen),
                        mc \in BOOLEAN}

ShortListPatterns == {p \in ListPatterns : Len(p[1]) + Len(p[2]) <= MaxPatLen}

\* the spec's probability examples
ExamplePatterns == {<<<<"a">>, <<>>, TRUE>>, <<<<"0","0","0","0","0">>, <<>>, TRUE>>,
                    <<<<"a">>, <<>>, FALSE>>}

PatternLists ==
    UNION {[1..k -> ShortListPatterns] : k \in 0..MaxPatterns}
      \cup {<<p>> : p \in ListPatterns \cup ExamplePatterns}

CheckCalls ==
    {[NoCall EXCEPT !.fn = f, !.address = a, !.prefix = pre, !.suffix = suf,
                    !.match_case = mc] :
        f \in {"check_eoa", "check_contract"}, a \in [1..AddrLen -> InChars],
        pre \in PatStrings, suf \in PatStrings, mc \in BOOLEAN}

ProbCalls ==
    {[NoCall EXCEPT !.fn = "prob_eoa", !.patterns = ps] : ps \in PatternLists}
      \cup {[NoCall EXCEPT !.fn = "prob_contract", !.prefix = p[1], !.suffix = p[2],
                           !.match_case = p[3]] : p \in ListPatterns \cup ExamplePatterns}

InitPure ==
    /\ call \in CheckCalls \cup ProbCalls
    /\ EngineStart(NoConfig)

ApplyCheckEoa ==
    /\ call.fn = "check_eoa" /\ ~call.done
    /\ call' = [call EXCEPT !.done = TRUE,
                  !.ret = CheckVanityPatternEoa(call.address, call.prefix, call.suffix,
                                                call.match_case)]
    /\ UNCHANGED engine_vars

ApplyCheckContract ==
    /\ call.fn = "check_contract" /\ ~call.done
    /\ call' = [call EXCEPT !.done = TRUE,
                  !.ret = CheckVanityPatternContract(call.address, call.prefix,
                                                     call.suffix, call.match_case)]
    /\ UNCHANGED engine_vars

ApplyProbEoa ==
    /\ call.fn = "prob_eoa" /\ ~call.done
    /\ call' = [call EXCEPT !.done = TRUE, !.ret = CalculateProbabilityEoa(call.patterns)]
    /\ UNCHANGED engine_vars

ApplyProbContract ==
    /\ call.fn = "prob_contract" /\ ~call.done
    /\ call' = [call EXCEPT !.done = TRUE,
                  !.ret = CalculateProbabilityContract(call.prefix, call.suffix,
                                                       call.match_case)]
    /\ UNCHANGED engine_vars

NextPure == ApplyCheckEoa \/ ApplyCheckContract \/ ApplyProbEoa \/ ApplyProbContract

SpecPure == InitPure /\ [][NextPure]_vars

Init == call = NoCall /\ \E c \in Configs : EngineStart(c)

Next ==
    \/ \E w \in Workers : EoaGenerate(w)
    \/ \E w \in Workers : EoaCheck(w)
    \/ \E w \in Workers : EoaError(w)
    \/ \E w \in Workers : ContractGenerate(w)
    \/ \E w \in Workers : ContractCheck(w)
    \/ \E w \in Workers : WorkerReport(w)
    \/ \E w \in Workers : WorkerDie(w)
    \/ MainGet
    \/ MainForward
    \/ KeyboardInterrupt
    \/ MainSetExit
    \/ MainTerminate
    \/ MainJoin
    \/ MainDrain
    \/ LogStart
    \/ LogLoop
    \/ LogDrain
    \/ LogReport

Spec == Init /\ [][Next]_vars

\* the operating system keeps every started process running and delivers SIGTERM;
\* the interrupt is the operator's and is not fair
FairSpec ==
    /\ Init /\ [][Next]_vars
    /\ WF_vars(MainGet) /\ WF_vars(MainForward)
    /\ WF_vars(MainSetExit) /\ WF_vars(MainTerminate) /\ WF_vars(MainJoin)
    /\ WF_vars(MainDrain)
    /\ WF_vars(LogStart) /\ WF_vars(LogLoop) /\ WF_vars(LogDrain) /\ WF_vars(LogReport)
    /\ \A w \in AllWorkers : WF_vars(w \in Workers /\ WorkerDie(w))

(***************************************************************************)
(* A long run.  The shared counter is a C int, and a run of some hours     *)
(* counts more than 2^31 guesses.  LongRunSpec also starts late in such a  *)
(* run: log_progress has reported at the clock's 0 and is back at its      *)
(* loop, the queues are empty, every worker is between two batches, and    *)
(* total_guesses is one short of the largest value the C int holds.  The   *)
(* clock and the history variables count from that moment.                 *)
(***************************************************************************)
\* calculate_probability as log_progress calls it for the run's arguments
RunProbability(c) ==
    IF c.mode = "eoa" THEN CalculateProbabilityEoa(c.patterns)
    ELSE CalculateProbabilityContract(c.patterns[1][1], c.patterns[1][2], c.patterns[1][3])

\* the runs whose log_progress survives its reporting ticks
LongRunConfigs == {c \in Configs : EstimateEtaOutcome(RunProbability(c), FALSE) = "ok"}

LongRunStart(c) ==
    /\ cfg = c
    /\ now = 0
    /\ w_pc = [w \in Workers |-> "generate"]
    /\ w_key = [w \in Workers |-> 0]
    /\ w_idx = [w \in Workers |-> 0]
    /\ local_guesses = [w \in Workers |-> 0]
    /\ sigterm = [w \in Workers |-> FALSE]
    /\ result_queue = <<>>
    /\ stats_queue = <<>>
    /\ total_guesses = MaxInt32 - 1
    /\ should_exit = FALSE
    /\ main_pc = "get"
    /\ main_result = NoResult
    /\ main_start_time = -(ReportInterval + 1)
    /\ main_i = 0
    /\ log_pc = "loop"
    /\ log_start_time = -(ReportInterval + 1)
    /\ last_log_time = 0
    /\ current_time = 0
    /\ probability = RunProbability(c)
    /\ log_error = "none"
    /\ performed = [w \in Workers |-> 0]
    /\ stats_sent = [w \in Workers |-> 0]
    /\ results_put = 0
    /\ sink = 0
    /\ reports = <<>>
    /\ batches = [w \in 1..c.num_processes |-> 0]
    /\ errors = 0

LongRunInit ==
    /\ call = NoCall
    /\ \/ \E c \in Configs : EngineStart(c)
       \/ \E c \in LongRunConfigs : LongRunStart(c)

LongRunSpec == LongRunInit /\ [][Next]_vars

(***************************************************************************)
(* Properties of the pure functions (checked under SpecPure).              *)
(***************************************************************************)
CheckDone == call.done /\ call.fn \in {"check_eoa", "check_contract"}

CheckFn(address, prefix, suffix, match_case) ==
    IF call.fn = "check_eoa"
    THEN CheckVanityPatternEoa(address, prefix, suffix, match_case)
    ELSE CheckVanityPatternContract(address, prefix, suffix, match_case)

\* the address is one a worker passes: the checksum-cased digits of account.address
\* in EOA mode, the lower-case digits of bytes.hex() in contract mode
AsCalledByWorker ==
    \/ call.fn = "check_eoa" /\ call.address = ChecksumDigits(call.address)
    \/ call.fn = "check_contract" /\ call.address = LowerStr(call.address)

ExpectedMatch ==
    IF call.match_case
    THEN /\ StartsWith(ChecksumDigits(call.address), call.prefix)
         /\ EndsWith(ChecksumDigits(call.address), call.suffix)
    ELSE /\ StartsWith(LowerStr(call.address), LowerStr(call.prefix))
         /\ EndsWith(LowerStr(call.address), LowerStr(call.suffix))

\* C6: in both entry points check_vanity_pattern, as the worker calls it, is true
\* exactly when the checksum-cased digits (match_case) or the lower-cased digits
\* (not match_case) of the address start with prefix and end with suffix.
C6_MatchIsOnChecksumDigits ==
    (CheckDone /\ AsCalledByWorker) => (call.ret = ExpectedMatch)

\* C7: without match_case the result does not depend on the letter case of the
\* address, of the prefix or of the suffix.
C7_CaseFoldSymmetric ==
    (CheckDone /\ ~call.match_case) =>
        /\ call.ret = CheckFn(UpperStr(call.address), call.prefix, call.suffix, FALSE)
        /\ call.ret = CheckFn(LowerStr(call.address), call.prefix, call.suffix, FALSE)
        /\ call.ret = CheckFn(call.address, UpperStr(call.prefix), call.suffix, FALSE)
        /\ call.ret = CheckFn(call.address, LowerStr(call.prefix), call.suffix, FALSE)
        /\ call.ret = CheckFn(call.address, call.prefix, UpperStr(call.suffix), FALSE)
        /\ call.ret = CheckFn(call.address, call.prefix, LowerStr(call.suffix), FALSE)

\* a case-insensitive match of a capital prefix against a mixed-case address
C7_Witness ==
    /\ CheckDone /\ ~call.match_case /\ call.ret = TRUE
    /\ call.prefix # <<>> /\ call.prefix # LowerStr(call.prefix)
    /\ call.address # LowerStr(call.address) /\ call.address # UpperStr(call.address)

\* the probability of one required character, as the spec states it
CharProb(c, match_case) ==
    IF ~match_case THEN <<1, 16>>
    ELSE IF c \in LowerSet \/ c \in UpperSet THEN <<1, 36>>
    ELSE IF c \in DigitSet THEN <<1, 16>>
    ELSE <<1, 1>>

RECURSIVE ProductOverChars(_, _)
ProductOverChars(s, match_case) ==
    IF s = <<>> THEN <<1, 1>>
    ELSE RatMul(CharProb(Head(s), match_case), ProductOverChars(Tail(s), match_case))

RECURSIVE SumOverPatterns(_)
SumOverPatterns(pats) ==
    IF pats = <<>> THEN RatZero
    ELSE RatAdd(ProductOverChars(Head(pats)[1] \o Head(pats)[2], Head(pats)[3]),
                SumOverPatterns(Tail(pats)))

\* C9: calculate_probability is the product over the characters of prefix+suffix of
\* 1/36 per letter and 1/16 per digit (match_case) or of 1/16 per character (not
\* match_case), summed over the patterns of a list.
C9_ProbabilityIsProductAndSum ==
    /\ (call.done /\ call.fn = "prob_eoa") => call.ret = SumOverPatterns(call.patterns)
    /\ (call.done /\ call.fn = "prob_contract") =>
            call.ret = ProductOverChars(call.prefix \o call.suffix, call.match_case)
    /\ (call.done /\ call.fn = "prob_eoa" /\ call.patterns = <<<<<<"a">>, <<>>, TRUE>>>>)
            => call.ret = <<1, 36>>
    /\ (call.done /\ call.fn = "prob_eoa" /\ call.patterns = <<<<<<"a">>, <<>>, FALSE>>>>)
            => call.ret = <<1, 16>>
    /\ (call.done /\ call.fn = "prob_eoa"
          /\ call.patterns = <<<<<<"0","0","0","0","0">>, <<>>, TRUE>>>>)
            => call.ret = <<1, 1048576>>

\* 1/36 + 1/16 = 13/144 for the list [("A", "", True), ("0", "", False)]
C9_Witness ==
    /\ call.done /\ call.fn = "prob_eoa"
    /\ call.patterns = <<<<<<"A">>, <<>>, TRUE>>, <<<<"0">>, <<>>, FALSE>>>>
    /\ call.ret = <<13, 144>>

(***************************************************************************)
(* Properties of the engine (checked under Spec).                          *)
(***************************************************************************)
RECURSIVE SumOver(_, _)
SumOver(f, S) ==
    IF S = {} THEN 0
    ELSE LET x == CHOOSE y \in S : TRUE IN f[x] + SumOver(f, S \ {x})

Returned == main_pc = "returned"

\* C1: when main's finally block has finished, total_guesses is the number of
\* guesses all workers performed.
C1_TotalIsAllGuessesPerformed ==
    Returned => total_guesses = SumOver(performed, Workers)

\* C2: when main has returned, every result put on result_queue has been forwarded
\* to the sink exactly once.
C2_EveryResultForwardedOnce ==
    /\ sink <= results_put
    /\ Returned => sink = results_put

\* C3: once cancellation is triggered main eventually returns, and when it has
\* returned every worker and log_progress have terminated.
C3_ShutdownReturnsWithAllTerminated ==
    /\ (main_pc = "set_exit") ~> Returned
    /\ [](Returned => /\ \A w \in Workers : w_pc[w] = "dead"
                      /\ log_pc \in {"exited", "crashed"})

\* C4: a worker stops only at a batch boundary, with the count of its last batch
\* put on stats_queue, and begins no batch once the signal is set.
C4_WorkerStopsAtBatchBoundary ==
    [][\A w \in Workers :
          /\ (w_pc[w] # "dead" /\ w_pc'[w] = "dead")
                => (w_pc[w] = "generate" /\ local_guesses[w] = 0)
          /\ (should_exit /\ w_pc[w] = "generate") => w_pc'[w] # "check"]_vars

\* whether digits satisfy a pattern <<prefix, suffix, match_case>>, as the spec
\* defines matching
Satisfies(digits, pat) ==
    IF pat[3]
    THEN StartsWith(ChecksumDigits(digits), pat[1]) /\ EndsWith(ChecksumDigits(digits), pat[2])
    ELSE /\ StartsWith(LowerStr(digits), LowerStr(pat[1]))
         /\ EndsWith(LowerStr(digits), LowerStr(pat[2]))

PendingResults ==
    {result_queue[i] : i \in 1..Len(result_queue)}
        \cup (IF main_result = NoResult THEN {} ELSE {main_result})

ConsistentEoa(r) ==
    /\ r.index \in 0..(cfg.max_batch - 1)
    /\ r.address = ToChecksumAddress(DeriveDigits(r.mnemonic, r.index))
    /\ \E k \in 1..Len(cfg.patterns) :
          /\ cfg.patterns[k][1] = r.prefix /\ cfg.patterns[k][2] = r.suffix
          /\ Satisfies(StripMarker(r.address), cfg.patterns[k])

ConsistentContract(r) ==
    /\ r.eoa_address = ToChecksumAddress(DeriveDigits(r.private_key, 0))
    /\ r.contract_address = CalculateContractAddress(r.eoa_address, r.nonce)
    /\ Satisfies(r.contract_address, cfg.patterns[1])

\* C5: every result carries the address derived from its key material at its
\* index or nonce, and that address satisfies the pattern it was checked against.
C5_ResultsSelfConsistent ==
    \A r \in PendingResults :
        IF cfg.mode = "eoa" THEN ConsistentEoa(r) ELSE ConsistentContract(r)

\* the EOA half of C5, which the code keeps
C5_EoaResultsSelfConsistent ==
    cfg.mode = "eoa" => \A r \in PendingResults : ConsistentEoa(r)

\* C8: an iteration of the EOA worker's loop puts exactly one result when the
\* address satisfies some pattern, naming the first such pattern, and none
\* otherwise; no other step of an EOA run puts a result.
C8_OneResultNamingFirstPattern ==
    [][cfg.mode = "eoa" =>
        \A w \in Workers :
          LET digits == DeriveDigits(w_key[w], w_idx[w])
              hits == {k \in 1..Len(cfg.patterns) : Satisfies(digits, cfg.patterns[k])}
              first == CHOOSE k \in hits : \A j \in hits : k <= j
          IN IF w_pc[w] = "check" /\ w_idx'[w] = w_idx[w] + 1
             THEN IF hits = {}
                  THEN result_queue' = result_queue /\ results_put' = results_put
                  ELSE /\ result_queue' = Append(result_queue,
                              [index |-> w_idx[w],
                               address |-> ToChecksumAddress(digits),
                               mnemonic |-> w_key[w],
                               prefix |-> cfg.patterns[first][1],
                               suffix |-> cfg.patterns[first][2]])
                       /\ results_put' = results_put + 1
             ELSE (\A v \in Workers : ~(w_pc[v] = "check" /\ w_idx'[v] = w_idx[v] + 1))
                      => results_put' = results_put]_vars

\* a queued result for an address that satisfies both patterns of the list
C8_Witness ==
    /\ cfg.mode = "eoa" /\ Len(cfg.patterns) = 2
    /\ \E i \in 1..Len(result_queue) :
          /\ Satisfies(StripMarker(result_queue[i].address), cfg.patterns[1])
          /\ Satisfies(StripMarker(result_queue[i].address), cfg.patterns[2])
          /\ result_queue[i].prefix = cfg.patterns[1][1]

\* C10: log_progress is never ended by an arithmetic error at a reporting tick.
C10_LogProgressNeverCrashes ==
    log_pc # "crashed" /\ log_error = "none"

\* C11: once a match has been forwarded, every reporting tick that begins
\* afterwards measures its elapsed time from the time of the latest forwarded
\* match (the start_time main has reset), not from the start of the run.
C11_ReportsMeasureFromLastMatch ==
    [][(log_pc = "loop" /\ log_pc' = "drain" /\ sink > 0)
          => elapsed_time' = current_time' - main_start_time]_vars

\* C12: no step makes total_guesses smaller, also when the running total
\* passes 2^31 - 1.
C12_TotalGuessesNeverDecreases ==
    [][total_guesses' >= total_guesses]_vars

\* any step of a worker process
WorkerStep ==
    \E w \in Workers :
        \/ EoaGenerate(w) \/ EoaCheck(w) \/ EoaError(w)
        \/ ContractGenerate(w) \/ ContractCheck(w)
        \/ WorkerReport(w) \/ WorkerDie(w)

\* C13: a worker step leaves total_guesses, both copies of start_time and
\* last_log_time as they are, and total_guesses changes only in a step that
\* takes the head of stats_queue and adds its value to the C int.
C13_WorkersLeaveStatisticsAlone ==
    [][/\ WorkerStep => UNCHANGED <<total_guesses, main_start_time, log_start_time,
                                    last_log_time>>
       /\ total_guesses' # total_guesses
             => /\ stats_queue # <<>>
                /\ stats_queue' = Tail(stats_queue)
                /\ total_guesses' = AddInt32(total_guesses, Head(stats_queue))]_vars

\* a worker is in the middle of a batch after a count of another batch has
\* been taken from stats_queue and added
C13_Witness ==
    /\ total_guesses > 0 /\ total_guesses # MaxInt32 - 1
    /\ \E w \in Workers : local_guesses[w] > 0

\* C14: should_exit only goes from unset to set and then stays set, and once
\* it is set log_progress, back at the head of its loop, begins no reporting
\* iteration any more.
C14_ShouldExitSetOnceStopsReporting ==
    [][/\ should_exit => should_exit'
       /\ (should_exit /\ log_pc = "loop") => log_pc' \in {"loop", "exited"}]_vars

\* log_progress has reported, then found should_exit set and left its loop
C14_Witness ==
    should_exit /\ log_pc = "exited" /\ reports # <<>>

RECURSIVE SumSeq(_)
SumSeq(q) == IF q = <<>> THEN 0 ELSE Head(q) + SumSeq(Tail(q))

\* C15: total_guesses never exceeds the guesses the workers have performed, and
\* no guess-count message is added twice: what has been added and what is still
\* on stats_queue never exceed what the workers have put there.
C15_TotalCountsOnlyPerformedGuesses ==
    /\ total_guesses <= SumOver(performed, Workers)
    /\ total_guesses + SumSeq(stats_queue) <= SumOver(stats_sent, Workers)

\* one count has been added to total_guesses while another is still queued
C15_Witness ==
    total_guesses > 0 /\ stats_queue # <<>>

\* C16: an exception while one candidate of a batch is checked makes the EOA
\* worker skip that candidate only: it stays in the batch, goes on with the next
\* candidate of the same mnemonic, and puts the batch's count after the last one.
C16_ErrorSkipsOneCandidate ==
    [][\A w \in Workers :
          (EoaError(w) /\ w_pc[w] = "check")
             => /\ w_key'[w] = w_key[w]
                /\ w_idx'[w] = w_idx[w] + 1
                /\ w_pc'[w] = IF w_idx[w] + 1 = cfg.max_batch THEN "report"
                              ELSE "check"]_vars

\* C17: every reporting tick drains stats_queue until it is empty, which always
\* comes to an end, then prints one progress line, more than ReportInterval
\* seconds after the previous one (or after log_progress began), and goes back
\* to its loop to report again.
C17_EveryTickDrainsThenReports ==
    /\ [][/\ (log_pc = "drain" /\ log_pc' # "drain")
                => (stats_queue = <<>> /\ log_pc' = "report")
          /\ (log_pc = "report" /\ log_pc' # "report")
                => /\ reports' = Append(reports, current_time)
                   /\ current_time - last_log_time > ReportInterval
                   /\ log_pc' = "loop"]_vars
    /\ (log_pc = "drain") ~> (log_pc = "report")

\* the same for the ticks whose arithmetic raises no exception; this holds
C17_SurvivingTicksDrainThenReport ==
    /\ [][/\ (log_pc = "drain" /\ log_pc' # "drain")
                => (stats_queue = <<>> /\ log_pc' = "report")
          /\ (log_pc = "report" /\ log_pc' # "report" /\ TickOutcome = "ok")
                => /\ reports' = Append(reports, current_time)
                   /\ current_time - last_log_time > ReportInterval
                   /\ log_pc' = "loop"]_vars
    /\ (log_pc = "drain") ~> (log_pc = "report")

\* C18: a worker that completes a batch puts exactly one message on stats_queue,
\* in a step of its own after the batch's last check (so after the results of
\* the batch), and the message is the number of addresses of the batch; nothing
\* else puts a message.
C18_OneCountPerBatchOfBatchSize ==
    [][/\ \A w \in Workers :
             (w_pc[w] = "report" /\ w_pc'[w] = "generate")
                => /\ stats_queue' = Append(stats_queue, cfg.max_batch)
                   /\ UNCHANGED <<result_queue, results_put>>
       /\ Len(stats_queue') > Len(stats_queue)
             => \E w \in Workers : w_pc[w] = "report" /\ w_pc'[w] = "generate"]_vars

\* the same for contract mode, whose worker has no exception handler; this holds
C18_ContractOneCountPerBatch ==
    [][cfg.mode = "contract" =>
          /\ \A w \in Workers :
                (w_pc[w] = "report" /\ w_pc'[w] = "generate")
                   => /\ stats_queue' = Append(stats_queue, cfg.max_batch)
                      /\ UNCHANGED <<result_queue, results_put>>
          /\ Len(stats_queue') > Len(stats_queue)
                => \E w \in Workers : w_pc[w] = "report" /\ w_pc'[w] = "generate"]_vars

\* C19: a contract-mode batch checks the nonces 0, 1, ... in ascending order and
\* ends only after it has checked nonce max_nonce itself.
C19_BatchChecksNoncesThroughMaxNonce ==
    [][cfg.mode = "contract" =>
          \A w \in Workers :
             /\ (w_pc[w] = "generate" /\ w_pc'[w] = "check") => w_idx'[w] = 0
             /\ (w_pc[w] = "check" /\ w_pc'[w] = "check") => w_idx'[w] = w_idx[w] + 1
             /\ (w_pc[w] = "check" /\ w_pc'[w] = "report") => w_idx[w] = cfg.max_batch]_vars

\* C20: for every EOA worker the guesses it has performed are the counts it has
\* put on stats_queue plus its local_guesses, also after an exception made it
\* abandon a batch.
C20_PerformedIsSentPlusLocal ==
    cfg.mode = "eoa" =>
        \A w \in Workers : performed[w] = stats_sent[w] + local_guesses[w]

\* after a caught exception a worker has put a count that includes the guesses
\* of the abandoned batch
C20_Witness ==
    /\ cfg.mode = "eoa" /\ errors > 0
    /\ \E w \in Workers : stats_sent[w] > cfg.max_batch /\ local_guesses[w] = 0

\* log_progress has ended, by leaving its loop or by an exception
LogEnded == log_pc \in {"exited", "crashed"}

\* C21: main is in the drain of its finally block only when log_progress has
\* ended, and every step that changes total_guesses is a step of the one process
\* that may update it then: log_progress at a tick while main is not draining,
\* or main in its drain after log_progress has ended.
C21_OneUpdaterOfTotalGuesses ==
    /\ [](main_pc = "drain" => LogEnded)
    /\ [][total_guesses' # total_guesses
            => \/ log_pc = "drain" /\ main_pc # "drain" /\ main_pc' = main_pc
               \/ main_pc = "drain" /\ LogEnded /\ log_pc' = log_pc]_vars

\* main has added a count in its drain after log_progress left its loop without
\* ever having reported
C21_Witness ==
    /\ main_pc = "drain" /\ total_guesses > 0
    /\ log_pc = "exited" /\ reports = <<>>

====
